---- MODULE Spec2Model ----
(***************************************************************************)
(* TorPool (src/src/default_config.js): the ordered pool of Tor instances, *)
(* its asynchronous creation and removal, and its load-balance methods.    *)
(* Every action is one run-to-completion step of the single JavaScript     *)
(* thread: the code from a call (or from the resumption of an await) up to *)
(* the next await.                                                         *)
(***************************************************************************)
EXTENDS Integers, Sequences, FiniteSets, TLC

\* Number of create_instance calls ever started; the instance created by call c
\* carries the id c (nanoid() gives each call a fresh id).
MaxCalls == 3
\* Number of create_instance calls started where every operation of the pool
\* interleaves with every other (Spec).
MaxInterleaved == 2
\* Longest list of definitions handed to one add() or count given to create().
MaxBatch == 2
\* Cap on how often exit() of one instance is invoked.
MaxExit == 2
\* Number of create_instance calls started where group labels are followed
\* (GroupSpec).
MaxGrouped == 2

Inst == 1..MaxCalls
Names == {"a", "b"}
\* definition.Name absent (falsy)
NoName == ""
\* group labels, and the Group arrays a definition may carry
Labels == {"g", "h"}
DefGroups == {<<>>, <<"g">>, <<"g", "g">>, <<"h", "g">>}
\* JavaScript's undefined, where an instance is expected
Undefined == 0
\* this._instances._weighted_list === undefined
NoList == [built |-> FALSE, items |-> {}]

VARIABLES
    instances,            \* this._instances: sequence of instance ids
    weighted_list,        \* this._instances._weighted_list
    load_balance_method,  \* this.load_balance_method
    dir_exists,           \* fs.existsSync(this.data_directory)
    calls,                \* the create_instance calls: where each stands
    handle,               \* the TorProcess of each call
    exit_count,           \* how often instance.exit() was invoked
    exit_call,            \* the pool-level exit() in flight
    events,               \* how often instance_created was emitted for each instance
    obs,                  \* the step just taken, as its caller sees it
    nexts,                \* what consecutive next() calls returned
    batch,                \* the create_instance calls one add() is waiting for
    group                 \* definition.Group of each call's definition and instance

vars == <<instances, weighted_list, load_balance_method, dir_exists, calls,
          handle, exit_count, exit_call, events, obs, nexts, batch, group>>

----------------------------------------------------------------------------
\* Helpers: JavaScript's array operations, 0-based indices as in the source.

SeqToSet(s) == {s[k] : k \in DOMAIN s}

Min(a, b) == IF a < b THEN a ELSE b
Max(a, b) == IF a > b THEN a ELSE b

\* a % b of JavaScript (the sign of the dividend), b > 0
JsRem(a, b) == IF a >= 0 THEN a % b ELSE 0 - ((0 - a) % b)

\* Array.prototype.splice(start, deleteCount): where the deletion really starts
splice_start(arr, start) ==
    IF start < 0 THEN Max(Len(arr) + start, 0) ELSE Min(start, Len(arr))

splice_count(arr, start, deleteCount) ==
    Min(Max(deleteCount, 0), Len(arr) - splice_start(arr, start))

\* the elements splice() returns
splice_removed(arr, start, deleteCount) ==
    SubSeq(arr, splice_start(arr, start) + 1,
           splice_start(arr, start) + splice_count(arr, start, deleteCount))

\* the array splice() leaves behind
splice_rest(arr, start, deleteCount) ==
    SubSeq(arr, 1, splice_start(arr, start)) \o
    SubSeq(arr, splice_start(arr, start) + splice_count(arr, start, deleteCount) + 1,
           Len(arr))

\* Array.prototype.indexOf: -1 when absent
RECURSIVE index_from(_, _, _)
index_from(arr, x, k) ==
    IF k > Len(arr) THEN -1
    ELSE IF arr[k] = x THEN k - 1
    ELSE index_from(arr, x, k + 1)

indexOf(arr, x) == index_from(arr, x, 1)

\* Array.prototype.rotate (lines 48-64): count is brought into [0, len), then the
\* first count elements are spliced off and pushed at the end. With len = 0 the
\* remainder is NaN and splice(0, NaN) removes nothing.
rotate(arr, count) ==
    LET len == Len(arr)
        cnt == IF len = 0 THEN 0 ELSE JsRem(JsRem(count, len) + len, len)
    IN  splice_rest(arr, 0, cnt) \o splice_removed(arr, 0, cnt)

\* TorProcess.instance_name: the Name of the definition the instance was built from
instance_name(i) == calls[i].name

\* get instance_names
instance_names(arr) == [k \in DOMAIN arr |-> instance_name(arr[k])]

\* instance_by_name: the first instance carrying the name, or undefined
instance_by_name(name) ==
    IF indexOf(instance_names(instances), name) = -1 THEN Undefined
    ELSE instances[indexOf(instance_names(instances), name) + 1]

----------------------------------------------------------------------------
\* Load balance methods

\* round_robin rotating the other way
round_robin_right(arr) == rotate(arr, -1)
\* round_robin rotating by two
round_robin_twice(arr) == rotate(arr, 2)

round_robin(arr) == rotate(arr, 1)

\* All orderings of n distinct elements of a set
RECURSIVE orderings(_, _)
orderings(S, n) ==
    IF n = 0 THEN {<<>>}
    ELSE UNION {{<<x>> \o t : t \in orderings(S \ {x}, n - 1)} : x \in S}

\* WeightedList.peek(n) of js-weighted-list: throws when the list holds fewer than
\* n items, else draws n of its items without replacement (any order is possible).
peek_throws(list, n) == Cardinality(list.items) < n
peek(list, n) == orderings(list.items, n)

\* the list the weighted method works on: built from the array when none is attached
weighted_cache(arr, list) ==
    IF list.built THEN list ELSE [built |-> TRUE, items |-> SeqToSet(arr)]

----------------------------------------------------------------------------
\* The observation of a step: the operation, how its synchronous part ended, and
\* what it returned

Observe(op, result, ret) == [op |-> op, result |-> result, ret |-> ret]

Init ==
    /\ instances = <<>>
    /\ weighted_list = NoList
    /\ load_balance_method \in {"round_robin", "weighted"}
    /\ dir_exists \in BOOLEAN
    /\ calls = [c \in Inst |-> [pc |-> "unused", name |-> NoName]]
    /\ handle = [c \in Inst |-> "absent"]
    /\ exit_count = [c \in Inst |-> 0]
    /\ exit_call = [pc |-> "idle", pre |-> <<>>, invoked |-> <<>>]
    /\ events = [c \in Inst |-> 0]
    /\ obs = Observe("new", "ok", Undefined)
    /\ nexts = <<>>
    /\ batch = {}
    /\ group = [c \in Inst |-> <<>>]

----------------------------------------------------------------------------
\* create_instance

used_calls == {c \in Inst : calls[c].pc # "unused"}
next_call == Cardinality(used_calls) + 1

\* the duplicate-name check written `indexOf(Name) > 0`: a name held by the first
\* instance of the pool passes
check_pc_first(name) ==
    IF name # NoName /\ indexOf(instance_names(instances), name) > 0
    THEN "rejected_dup" ELSE "creating"

\* line 236: the duplicate-name check, and where the call stands after it (it either
\* throws or runs on to `await instance.create()`)
check_pc(name) ==
    IF name # NoName /\ indexOf(instance_names(instances), name) # -1
    THEN "rejected_dup" ELSE "creating"

\* lines 233-248: from the call to its first await
enter_pc(name) == IF ~dir_exists THEN "mkdir" ELSE check_pc(name)

\* The synchronous start of create_instance for each definition of defs, in order,
\* as calls first..first+Len(defs)-1. pcs[k] is where the k-th stands afterwards.
start_calls(defs, pcs) ==
    LET first == next_call
        new == first..(first + Len(defs) - 1)
    IN  /\ calls' = [c \in Inst |->
                       IF c \in new
                       THEN [pc |-> pcs[c - first + 1], name |-> defs[c - first + 1]]
                       ELSE calls[c]]
        \* line 244-248: new TorProcess(...), instance.create() started
        /\ handle' = [c \in Inst |->
                       IF c \in new /\ pcs[c - first + 1] = "creating"
                       THEN "starting" ELSE handle[c]]
        \* line 239
        /\ weighted_list' = IF \E k \in DOMAIN pcs : pcs[k] = "creating"
                            THEN NoList ELSE weighted_list

pc_result(pc) ==
    CASE pc = "rejected_dup" -> "DuplicateNameError"
      [] pc = "rejected_mkdir" -> "EEXIST"
      [] OTHER -> "pending"

create_instance_call(name) ==
    /\ next_call <= MaxCalls
    /\ start_calls(<<name>>, <<enter_pc(name)>>)
    /\ obs' = Observe("create_instance", pc_result(enter_pc(name)), Undefined)
    /\ UNCHANGED <<instances, load_balance_method, dir_exists, exit_count,
                   exit_call, events, nexts, batch>>

\* create_instance with a definition that carries no Group
create_instance(name) == create_instance_call(name) /\ UNCHANGED group

\* create_instance with a definition that carries the Group array labels
create_instance_in(name, labels) ==
    /\ create_instance_call(name)
    /\ group' = [group EXCEPT ![next_call] = labels]

\* add(instance_definitions): create_instance is started for every definition before
\* any of them resumes
add_calls(defs) ==
    /\ next_call + Len(defs) - 1 <= MaxCalls
    /\ start_calls(defs, [k \in DOMAIN defs |-> enter_pc(defs[k])])
    /\ obs' = Observe("add", "pending", Undefined)
    /\ UNCHANGED <<instances, load_balance_method, dir_exists, exit_count,
                   exit_call, events, nexts, group>>

\* add() with nobody following what becomes of its promise
add(defs) == add_calls(defs) /\ UNCHANGED batch

\* add() whose promise is followed: the calls its Promise.all waits for
add_awaited(defs) ==
    /\ batch = {}
    /\ add_calls(defs)
    /\ batch' = next_call..(next_call + Len(defs) - 1)

rejected(c) == calls[c].pc \in {"rejected_dup", "rejected_mkdir", "rejected_error"}

\* a Promise.all that waits for every promise to settle and then resolves
promise_all_settled(S) ==
    IF \A c \in S : rejected(c) \/ calls[c].pc = "resolved" THEN "resolved"
    ELSE "pending"

\* line 263, Promise.all over the create_instance promises of the calls S: rejected
\* as soon as one is rejected, resolved when all are resolved
promise_all(S) ==
    IF \E c \in S : rejected(c) THEN "rejected"
    ELSE IF \A c \in S : calls[c].pc = "resolved" THEN "resolved"
    ELSE "pending"

\* how the add() followed stands, and the array it resolves with: what each
\* create_instance resolved with (line 257), in the order of the definitions
add_result == promise_all(batch)
add_value == [k \in 1..Cardinality(batch) |-> CHOOSE c \in batch :
                 Cardinality({d \in batch : d < c}) = k - 1]

\* create(n) with a number: n definitions without a Name, handed to add
create(n) ==
    /\ next_call + n - 1 <= MaxCalls
    /\ start_calls([k \in 1..n |-> NoName], [k \in 1..n |-> enter_pc(NoName)])
    /\ obs' = Observe("create", "pending", Undefined)
    /\ UNCHANGED <<instances, load_balance_method, dir_exists, exit_count,
                   exit_call, events, nexts, batch, group>>

\* fs.mkdirAsync settles and create_instance resumes at line 236. mkdir of a
\* directory that exists by now fails (EEXIST) and the call rejects.
mkdir_pc(name) == IF dir_exists THEN "rejected_mkdir" ELSE check_pc(name)

MkdirDone(c) ==
    /\ calls[c].pc = "mkdir"
    /\ calls' = [calls EXCEPT ![c].pc = mkdir_pc(calls[c].name)]
    /\ dir_exists' = TRUE
    /\ handle' = IF mkdir_pc(calls[c].name) = "creating"
                 THEN [handle EXCEPT ![c] = "starting"] ELSE handle
    /\ weighted_list' = IF mkdir_pc(calls[c].name) = "creating"
                        THEN NoList ELSE weighted_list
    /\ obs' = Observe("mkdir_done", pc_result(mkdir_pc(calls[c].name)), Undefined)
    /\ UNCHANGED <<instances, load_balance_method, exit_count, exit_call, events, nexts,
                   batch, group>>

\* line 250: what the array holds after `await instance.create()` resumes
pushed(arr, c) == Append(arr, c)

\* instance.create() has resolved: lines 250-258, the push and the two listeners
CreateDone(c) ==
    /\ calls[c].pc = "creating"
    /\ instances' = pushed(instances, c)
    /\ calls' = [calls EXCEPT ![c].pc = "waiting"]
    /\ obs' = Observe("create_done", "pending", Undefined)
    /\ nexts' = <<>>
    /\ UNCHANGED <<weighted_list, load_balance_method, dir_exists, handle,
                   exit_count, exit_call, events, batch, group>>

\* instance_created emitted by the error listener as well
listener_events_any(c, sig) == [events EXCEPT ![c] = events[c] + 1]

\* lines 253-258: what the listeners do with a signal, when they are attached
\* (instance.once('error', reject); instance.once('ready', emit and resolve))
listener_pc(sig) == IF sig = "ready" THEN "resolved" ELSE "rejected_error"
listener_events(c, sig) ==
    IF sig = "ready" THEN [events EXCEPT ![c] = events[c] + 1] ELSE events

\* The TorProcess emits its one startup signal, at any time after create() was
\* started. A signal emitted while no listener is attached is lost.
HandleEmit(c, sig) ==
    /\ handle[c] = "starting"
    /\ handle' = [handle EXCEPT ![c] = sig]
    /\ IF calls[c].pc = "waiting"
       THEN /\ calls' = [calls EXCEPT ![c].pc = listener_pc(sig)]
            /\ events' = listener_events(c, sig)
       ELSE UNCHANGED <<calls, events>>
    /\ obs' = Observe("signal", sig, Undefined)
    /\ UNCHANGED <<instances, weighted_list, load_balance_method, dir_exists,
                   exit_count, exit_call, nexts, batch, group>>

----------------------------------------------------------------------------
\* Groups

\* TorProcess.instance_group: the Group array of the instance's definition
instance_group(i) == group[i]

\* the instances a caller can hold: every TorProcess constructed so far
constructed == {i \in Inst : handle[i] # "absent"}

\* the two arrays one after the other, nothing dropped
union_concat(a, b) == a \o b

\* _.union(a, b): the values of both arrays, each once, in the order of their first
\* occurrence
RECURSIVE uniq(_)
uniq(a) ==
    IF a = <<>> THEN <<>>
    ELSE LET front == uniq(SubSeq(a, 1, Len(a) - 1))
         IN  IF a[Len(a)] \in SeqToSet(front) THEN front ELSE Append(front, a[Len(a)])

union(a, b) == uniq(a \o b)

\* _.remove(array, (g) => g === label): every element equal to label taken out
pull(a, label) == SelectSeq(a, LAMBDA g : g # label)

\* lines 98-100
add_instance_to_group(label, i) ==
    /\ i \in constructed
    /\ group' = [group EXCEPT ![i] = union(instance_group(i), <<label>>)]
    /\ obs' = Observe("add_instance_to_group", "ok", Undefined)
    /\ UNCHANGED <<instances, weighted_list, load_balance_method, dir_exists, calls,
                   handle, exit_count, exit_call, events, nexts, batch>>

\* lines 118-120
remove_instance_from_group(label, i) ==
    /\ i \in constructed
    /\ group' = [group EXCEPT ![i] = pull(group[i], label)]
    /\ obs' = Observe("remove_instance_from_group", "ok", Undefined)
    /\ UNCHANGED <<instances, weighted_list, load_balance_method, dir_exists, calls,
                   handle, exit_count, exit_call, events, nexts, batch>>

\* get group_names (lines 94-96): the labels of the instances in the pool
group_names == UNION {SeqToSet(instance_group(instances[k])) : k \in DOMAIN instances}

\* every instance of arr, whatever its labels
group_members_all(arr, label) == arr

\* line 179: this.instances.filter(instance_group.indexOf(prop) !== -1)
group_members(arr, label) ==
    SelectSeq(arr, LAMBDA i : indexOf(instance_group(i), label) # -1)

\* line 182, _.sortBy(instances_in_group, 'instance_name'): stable, ascending, an
\* undefined name last
sortBy_name(arr) ==
    LET named(n) == SelectSeq(arr, LAMBDA i : instance_name(i) = n)
    IN  named("a") \o named("b") \o named(NoName)

\* groups[prop] (lines 174-187): the array behind the view of the group prop
groups_get(prop) ==
    sortBy_name(IF prop \in group_names THEN group_members(instances, prop) ELSE <<>>)

----------------------------------------------------------------------------
\* Removal

\* no exit() invoked at all
exits_invoked_none(arr) == exit_count

\* instance.exit() invoked once on every element of arr
exits_invoked(arr) ==
    [i \in Inst |-> exit_count[i] + Cardinality({k \in DOMAIN arr : arr[k] = i})]

can_exit(arr) == \A k \in DOMAIN arr : exit_count[arr[k]] < MaxExit

\* remove(instances): lines 285-289
remove(n) ==
    /\ can_exit(splice_removed(instances, 0, n))
    /\ weighted_list' = NoList
    /\ instances' = splice_rest(instances, 0, n)
    /\ exit_count' = exits_invoked(splice_removed(instances, 0, n))
    /\ obs' = Observe("remove", "pending", Undefined)
    /\ nexts' = <<>>
    /\ UNCHANGED <<load_balance_method, dir_exists, calls, handle, exit_call, events,
                   batch, group>>

\* lines 292-295 of remove_at: the splice, then exit() of what it returned;
\* undefined.exit() is a TypeError
remove_at_result(index) ==
    IF splice_removed(instances, index, 1) = <<>> THEN "TypeError" ELSE "pending"

remove_at_body(op, index) ==
    /\ can_exit(splice_removed(instances, index, 1))
    /\ weighted_list' = NoList
    /\ instances' = splice_rest(instances, index, 1)
    /\ exit_count' = exits_invoked(splice_removed(instances, index, 1))
    /\ obs' = Observe(op, remove_at_result(index), Undefined)
    /\ nexts' = <<>>
    /\ UNCHANGED <<load_balance_method, dir_exists, calls, handle, exit_call, events,
                   batch, group>>

remove_at(index) == remove_at_body("remove_at", index)

\* line 301: the message is built from `name`, which is not defined in
\* remove_by_name (its parameter is instance_name): evaluating the template
\* literal throws a ReferenceError before the Error is constructed
not_found_error == "ReferenceError"

\* remove_by_name: lines 298-304
remove_by_name(name) ==
    IF instance_by_name(name) = Undefined
    THEN /\ obs' = Observe("remove_by_name", not_found_error, Undefined)
         /\ UNCHANGED <<instances, weighted_list, load_balance_method, dir_exists,
                        calls, handle, exit_count, exit_call, events, nexts, batch,
                        group>>
    ELSE remove_at_body("remove_by_name", indexOf(instances, instance_by_name(name)))

----------------------------------------------------------------------------
\* next

\* the last element instead of the first
last_of(arr) == IF arr = <<>> THEN Undefined ELSE arr[Len(arr)]

\* line 308: this.instances[0]
first_of(arr) == IF arr = <<>> THEN Undefined ELSE arr[1]

\* lines 306-309 under round_robin; the array is rotated in place, so an attached
\* _weighted_list stays attached
next_round_robin ==
    /\ load_balance_method = "round_robin"
    /\ instances' = round_robin(instances)
    /\ obs' = Observe("next", "ok", first_of(round_robin(instances)))
    /\ UNCHANGED <<weighted_list, load_balance_method, dir_exists, calls, handle,
                   exit_count, exit_call, events, batch, group>>

\* lines 306-309 under weighted
next_weighted ==
    /\ load_balance_method = "weighted"
    /\ weighted_list' = weighted_cache(instances, weighted_list)
    /\ IF peek_throws(weighted_cache(instances, weighted_list), Len(instances))
       THEN /\ instances' = instances
            /\ obs' = Observe("next", "throws", Undefined)
       ELSE \E i \in peek(weighted_cache(instances, weighted_list), Len(instances)) :
            /\ instances' = i
            /\ obs' = Observe("next", "ok", first_of(i))
    /\ UNCHANGED <<load_balance_method, dir_exists, calls, handle, exit_count,
                   exit_call, events, nexts, batch, group>>

\* next() with nobody recording what it returns
next == (next_round_robin /\ UNCHANGED nexts) \/ next_weighted

NextWindow == MaxCalls + 1

\* the last NextWindow returns of consecutive next() calls
recorded(ret) ==
    IF Len(nexts) < NextWindow THEN Append(nexts, ret) ELSE Append(Tail(nexts), ret)

\* next() under round_robin with a caller that keeps what it returns
next_recorded ==
    /\ next_round_robin
    /\ nexts' = recorded(obs'.ret)

----------------------------------------------------------------------------
\* exit

\* exit() passing over the first instance
exit_targets_skip(arr) == SubSeq(arr, 2, Len(arr))

\* line 312: this._instances.map((instance) => instance.exit())
exit_targets(arr) == arr

ExitStart ==
    /\ exit_call.pc # "awaiting"
    /\ can_exit(exit_targets(instances))
    /\ exit_count' = exits_invoked(exit_targets(instances))
    /\ exit_call' = [pc |-> "awaiting", pre |-> instances,
                     invoked |-> exit_targets(instances)]
    /\ obs' = Observe("exit", "pending", Undefined)
    /\ UNCHANGED <<instances, weighted_list, load_balance_method, dir_exists, calls,
                   handle, events, nexts, batch, group>>

\* line 313: what this._instances is after the exits have all resolved
exit_cleared(arr) == <<>>

\* every instance.exit() of line 312 has resolved (exit() of a TorProcess is taken
\* to resolve): line 313, a new array
ExitDone ==
    /\ exit_call.pc = "awaiting"
    /\ instances' = exit_cleared(instances)
    /\ weighted_list' = NoList
    /\ exit_call' = [exit_call EXCEPT !.pc = "done"]
    /\ obs' = Observe("exit_done", "resolved", Undefined)
    /\ nexts' = <<>>
    /\ UNCHANGED <<load_balance_method, dir_exists, calls, handle, exit_count, events,
                   batch, group>>

----------------------------------------------------------------------------

DefNames == Names \cup {NoName}

RECURSIVE seqs_upto(_, _)
seqs_upto(S, n) ==
    IF n = 0 THEN {<<>>}
    ELSE seqs_upto(S, n - 1) \cup
         {Append(s, x) : s \in {t \in seqs_upto(S, n - 1) : Len(t) = n - 1}, x \in S}

\* Every operation of the pool, interleaved with every other
Next ==
    \/ \E name \in DefNames : next_call <= MaxInterleaved /\ create_instance(name)
    \/ \E defs \in seqs_upto(DefNames, MaxBatch) \ {<<>>} :
          next_call + Len(defs) - 1 <= MaxInterleaved /\ add(defs)
    \/ \E n \in 1..MaxBatch : next_call + n - 1 <= MaxInterleaved /\ create(n)
    \/ \E c \in Inst : MkdirDone(c)
    \/ \E c \in Inst : CreateDone(c)
    \/ \E c \in Inst, sig \in {"ready", "error"} : HandleEmit(c, sig)
    \/ \E n \in 0..(Len(instances) + 1) : remove(n)
    \/ \E index \in -2..Len(instances) : remove_at(index)
    \/ \E name \in Names : remove_by_name(name)
    \/ next
    \/ ExitStart
    \/ ExitDone

Spec == Init /\ [][Next]_vars

----------------------------------------------------------------------------
\* The claims

pool_set == SeqToSet(instances)
pool_names == SeqToSet(instance_names(instances))
settled(c) == calls[c].pc \in {"resolved", "rejected_dup", "rejected_mkdir", "rejected_error"}
occurrences(arr, x) == Cardinality({k \in DOMAIN arr : arr[k] = x})

\* C1: no two instances of the pool carry the same non-null name.
Claim_C1_NamesUnique ==
    \A j, k \in DOMAIN instances :
        j # k /\ instance_name(instances[j]) # NoName
            => instance_name(instances[j]) # instance_name(instances[k])

\* C2: with create_instance calls made one after the other: once every call made
\* has completed, none by a startup error, and the instances created carry
\* distinct names, the pool holds exactly
\* the N instances created and no name twice; and a create_instance whose Name is
\* already in the pool fails with DuplicateNameError at its check, with no
\* TorProcess constructed and the pool as it was.
created == {c \in Inst : calls[c].pc = "resolved"}

C2_Sizes ==
    (/\ \A c \in used_calls : settled(c) /\ calls[c].pc # "rejected_error"
     /\ created # {}
     /\ \A c, d \in created : c # d /\ calls[c].name # NoName
                                 => calls[c].name # calls[d].name)
    => /\ Len(instances) = Cardinality(created)
       /\ pool_set = created
       /\ Claim_C1_NamesUnique

C2_Reuse ==
    \A c \in Inst :
        (/\ calls[c].pc \in {"unused", "mkdir"}
         /\ calls'[c].pc \notin {"unused", "mkdir", "rejected_mkdir"}
         /\ calls'[c].name # NoName
         /\ calls'[c].name \in pool_names)
        => /\ calls'[c].pc = "rejected_dup"
           /\ handle'[c] = "absent"
           /\ instances' = instances

Thm_C2_DistinctThenDuplicate == [](C2_Sizes) /\ [][C2_Reuse]_vars

Wit_C2_DistinctThenDuplicate ==
    /\ calls[1].pc = "resolved" /\ calls[2].pc = "resolved"
    /\ calls[1].name # NoName /\ calls[2].name # NoName
    /\ calls[1].name # calls[2].name
    /\ calls[3].pc = "rejected_dup"
    /\ Len(instances) = 2

\* C3: an instance whose create_instance was rejected by the error signal of its
\* TorProcess is not in the pool.
Claim_C3_FailedNotMember ==
    \A c \in Inst : calls[c].pc = "rejected_error" => c \notin pool_set

\* C4: once the TorProcess of a create_instance call has emitted ready or error,
\* the call eventually settles: resolved after ready, rejected after error.
Claim_C4_Settles ==
    \A c \in Inst :
        [](handle[c] \in {"ready", "error"}
            => <>(calls[c].pc = IF handle[c] = "ready" THEN "resolved"
                                ELSE "rejected_error"))

\* C5: instance_created was emitted exactly once for the instance of every
\* create_instance call that resolved, and never for any other call; so the
\* number of notifications is the number of resolved creations.
Thm_C5_CreatedOncePerSuccess ==
    \A c \in Inst : events[c] = IF calls[c].pc = "resolved" THEN 1 ELSE 0

Wit_C5_CreatedOncePerSuccess ==
    \E c, d \in Inst :
        /\ calls[c].pc = "resolved" /\ events[c] = 1
        /\ calls[d].pc = "rejected_error" /\ events[d] = 0

\* the order rotated left by one position
rotated_left(arr) == [k \in DOMAIN arr |-> arr[(k % Len(arr)) + 1]]

\* C6 as claimed: under round_robin next() returns the instance that was first
\* before the call, and leaves the order rotated left by one.
Claim_C6_ReturnsOldFirst ==
    [][(obs'.op = "next" /\ load_balance_method = "round_robin" /\ instances # <<>>)
         => /\ obs'.ret = instances[1]
            /\ instances' = rotated_left(instances)]_vars

\* C6 as amended: under round_robin next() leaves the order rotated left by one
\* and returns the instance that is first after the call, which was second
\* before it (the only one, in a pool of one): [A,B,C] gives B and [B,C,A].
Thm_C6_ReturnsNewFirst ==
    [][(obs'.op = "next" /\ load_balance_method = "round_robin" /\ instances # <<>>)
         => /\ obs'.ret = instances[(1 % Len(instances)) + 1]
            /\ obs'.ret = instances'[1]
            /\ instances' = rotated_left(instances)]_vars

Wit_C6_ReturnsNewFirst ==
    /\ obs.op = "next" /\ load_balance_method = "round_robin"
    /\ Len(instances) = 3 /\ obs.ret = instances[1]

\* C7: under round_robin, what consecutive next() calls over an unchanged pool of
\* N >= 1 instances return: instances of the pool, any N calls in a row each a
\* different one, and every call the same as the one N calls before.
Thm_C7_FullCycle ==
    (load_balance_method = "round_robin" /\ instances # <<>>) =>
        /\ \A j \in DOMAIN nexts : nexts[j] \in pool_set
        /\ \A j, k \in DOMAIN nexts :
               (j < k /\ k - j < Len(instances)) => nexts[j] # nexts[k]
        /\ \A j \in DOMAIN nexts :
               j + Len(instances) \in DOMAIN nexts => nexts[j + Len(instances)] = nexts[j]

Wit_C7_FullCycle == Len(instances) = 3 /\ Len(nexts) = 4

Claim_C9_UnknownName ==
    [][\A name \in Names :
           (remove_by_name(name) /\ name \notin pool_names)
           => /\ obs'.result = "NotFoundError"
              /\ instances' = instances
              /\ exit_count' = exit_count]_vars

\* C10, for an index that addresses no instance: remove_at(index) with index < 0
\* or index >= pool size invokes no exit and leaves the pool as it was.
Claim_C10_InvalidIndex ==
    [][\A index \in -2..MaxCalls :
           (remove_at(index) /\ (index < 0 \/ index >= Len(instances)))
           => /\ instances' = instances
              /\ exit_count' = exit_count]_vars

\* C11: remove(n), n >= 0, takes exactly the first min(n, size) instances of the
\* pool order out of the pool, invokes exit() once on each of them and on no other
\* instance, and leaves the others in the pool in the order they had.
Thm_C11_RemoveFirst ==
    [][\A n \in 0..(MaxCalls + 1) :
           remove(n) =>
               LET k == Min(n, Len(instances))
                   gone == SeqToSet(SubSeq(instances, 1, k))
               IN  /\ instances' = SubSeq(instances, k + 1, Len(instances))
                   /\ \A i \in Inst :
                          exit_count'[i] = exit_count[i] + (IF i \in gone THEN 1 ELSE 0)]_vars

Wit_C11_RemoveFirst ==
    /\ obs.op = "remove" /\ Len(instances) = 2
    /\ \E i \in Inst : i \notin pool_set /\ exit_count[i] = 1

\* C12: an add() rejects exactly when one of its create_instance calls has failed
\* (by a duplicate name, by mkdir, or by the error signal); every instance of its
\* calls that was created is in the pool, whether add() rejected or not; and when
\* add() resolves, it returns one instance per definition, each in the pool.
Thm_C12_AddRejects ==
    batch # {} =>
        /\ (add_result = "rejected") <=> (\E c \in batch : rejected(c))
        /\ \A c \in batch : calls[c].pc = "resolved" => c \in pool_set
        /\ add_result = "resolved" =>
               /\ Len(add_value) = Cardinality(batch)
               /\ SeqToSet(add_value) = batch
               /\ \A k \in DOMAIN add_value : add_value[k] \in pool_set

Wit_C12_AddRejects ==
    /\ add_result = "rejected"
    /\ \E c, d \in batch :
           /\ calls[c].pc = "resolved" /\ c \in pool_set
           /\ calls[d].pc = "rejected_error"

labels_of(i) == SeqToSet(instance_group(i))

\* C13: add_instance_to_group(L, i) leaves L exactly once among the labels of i,
\* whether i carried L or not, adding L again would change nothing, and the other
\* labels of i stay (all of them, when i carried L already);
\* remove_instance_from_group(L, i) on an instance that does not carry L changes no
\* label of any instance and raises no error.
Thm_C13_GroupIdempotent ==
    [][\A label \in Labels, i \in Inst :
           /\ add_instance_to_group(label, i) =>
                  /\ occurrences(group'[i], label) = 1
                  /\ union(group'[i], <<label>>) = group'[i]
                  /\ SeqToSet(group'[i]) \ {label} = labels_of(i) \ {label}
                  /\ label \in labels_of(i) => SeqToSet(group'[i]) = labels_of(i)
                  /\ obs'.result = "ok"
           /\ (remove_instance_from_group(label, i) /\ label \notin labels_of(i)) =>
                  /\ group' = group
                  /\ obs'.result = "ok"]_vars

\* the last step removed a label from an instance that did not carry it: a Group
\* array with a label twice can only be what a definition came with
Wit_C13_GroupIdempotent ==
    /\ obs.op = "remove_instance_from_group"
    /\ constructed # {}
    /\ \A i \in constructed : group[i] = <<"g", "g">>

name_rank(n) == CASE n = "a" -> 1 [] n = "b" -> 2 [] OTHER -> 3

\* C14: at every access the view of label L holds exactly the instances of the
\* pool that carry L, each once, sorted by name (instances without a name last);
\* so an instance removed from the pool, or that L was removed from, is not in it,
\* and a pool instance L was added to is.
Thm_C14_GroupView ==
    \A label \in Labels :
        LET view == groups_get(label)
        IN  /\ SeqToSet(view) = {i \in pool_set : label \in labels_of(i)}
            /\ \A j, k \in DOMAIN view : j < k =>
                   /\ view[j] # view[k]
                   /\ name_rank(instance_name(view[j])) <= name_rank(instance_name(view[k]))

\* an instance carrying g has just been removed from the pool, and the view of g
\* holds the instance that stays
Wit_C14_GroupView ==
    /\ obs.op = "remove_at"
    /\ \E i \in constructed : i \notin pool_set /\ "g" \in labels_of(i)
    /\ groups_get("g") # <<>>

\* C15: a weighted-selection cache attached to the pool holds exactly the
\* instances that are in the pool.
Claim_C15_CacheCurrent ==
    weighted_list.built => weighted_list.items = pool_set

permutation(a, b) ==
    /\ Len(a) = Len(b)
    /\ \A x \in SeqToSet(a) \cup SeqToSet(b) : occurrences(a, x) = occurrences(b, x)

\* C16: under either method, the pool after next() holds the instances it held
\* before, each as often as before; and a next() that returns, returns the
\* instance that is first in the pool after the call (undefined on an empty pool).
\* A next() that throws leaves the pool as it was.
Thm_C16_NextReorders ==
    [][obs'.op = "next" =>
          /\ permutation(instances', instances)
          /\ obs'.result = "ok" =>
                 obs'.ret = IF instances' = <<>> THEN Undefined ELSE instances'[1]
          /\ obs'.result # "ok" => instances' = instances]_vars

\* a weighted next() has just put the three instances in another order than the
\* one they were created in, and returned the first
Wit_C16_NextReorders ==
    /\ obs.op = "next" /\ obs.result = "ok" /\ load_balance_method = "weighted"
    /\ Len(instances) = 3 /\ instances[1] > instances[2]
    /\ obs.ret = instances[1]

\* C17: every instance in the pool has emitted ready.
Claim_C17_MemberIsReady ==
    \A i \in pool_set : handle[i] = "ready"

\* the instances that line 250 has pushed into the pool at some time
once_member == {c \in Inst : calls[c].pc \in {"waiting", "resolved", "rejected_error"}}

\* C18: every instance that was pushed into the pool and is not in it now has had
\* its exit() invoked.
Claim_C18_DroppedIsExited ==
    \A i \in once_member : i \notin pool_set => exit_count[i] >= 1

\* C19: the pool has invoked exit() of no instance more than once.
Claim_C19_ExitOnce ==
    \A i \in Inst : exit_count[i] <= 1

\* C20: whenever instance_created is emitted for an instance, the instance is in
\* the pool.
Claim_C20_CreatedIsMember ==
    [][\A c \in Inst : events'[c] > events[c] => c \in SeqToSet(instances')]_vars

\* Creation alone: create_instance, add and create, and what resumes them. Once
\* started, mkdir settles, instance.create() resolves and the TorProcess emits its
\* signal.
CreateNext ==
    \/ \E name \in DefNames : create_instance(name)
    \/ \E defs \in seqs_upto(DefNames, MaxBatch) \ {<<>>} : add(defs)
    \/ \E n \in 1..MaxBatch : create(n)
    \/ \E c \in Inst : MkdirDone(c)
    \/ \E c \in Inst : CreateDone(c)
    \/ \E c \in Inst, sig \in {"ready", "error"} : HandleEmit(c, sig)

CreateFair ==
    \A c \in Inst :
        /\ WF_vars(MkdirDone(c))
        /\ WF_vars(CreateDone(c))
        /\ WF_vars(\E sig \in {"ready", "error"} : HandleEmit(c, sig))

CreateSpec == Init /\ [][CreateNext]_vars /\ CreateFair

\* create_instance calls made one after the other: each is started only when the
\* one before it has completed
in_flight == \E c \in Inst : calls[c].pc \in {"mkdir", "creating", "waiting"}

SerialNext ==
    \/ \E name \in DefNames : ~in_flight /\ create_instance(name)
    \/ \E c \in Inst : MkdirDone(c)
    \/ \E c \in Inst : CreateDone(c)
    \/ \E c \in Inst, sig \in {"ready", "error"} : HandleEmit(c, sig)

SerialSpec == Init /\ [][SerialNext]_vars

\* A round_robin pool, its data directory in place, whose caller keeps what next()
\* returns
RoundRobinInit == Init /\ load_balance_method = "round_robin" /\ dir_exists

RoundRobinNext ==
    \/ \E n \in 1..MaxBatch : create(n)
    \/ \E c \in Inst : CreateDone(c)
    \/ \E c \in Inst, sig \in {"ready", "error"} : HandleEmit(c, sig)
    \/ \E index \in 0..(Len(instances) - 1) : remove_at(index)
    \/ next_recorded

RoundRobinSpec == RoundRobinInit /\ [][RoundRobinNext]_vars

\* The order of the pool: instances created without a Name whose startup
\* succeeds, next() under either method, and remove(n)
OrderInit == Init /\ dir_exists

OrderNext ==
    \/ \E n \in 1..MaxBatch : create(n)
    \/ \E c \in Inst : CreateDone(c)
    \/ \E c \in Inst : HandleEmit(c, "ready")
    \/ \E n \in 0..(Len(instances) + 1) : remove(n)
    \/ next

OrderSpec == OrderInit /\ [][OrderNext]_vars

\* One add() whose promise is followed, on a pool that create_instance calls made
\* one after the other have filled
AddNext ==
    \/ \E name \in DefNames : ~in_flight /\ batch = {} /\ create_instance(name)
    \/ \E defs \in seqs_upto(DefNames, MaxBatch) \ {<<>>} : ~in_flight /\ add_awaited(defs)
    \/ \E c \in Inst : MkdirDone(c)
    \/ \E c \in Inst : CreateDone(c)
    \/ \E c \in Inst, sig \in {"ready", "error"} : HandleEmit(c, sig)

AddSpec == Init /\ [][AddNext]_vars

\* Group labels: instances created with a Group array or without, labels added and
\* removed, instances removed from the pool
GroupInit == Init /\ dir_exists /\ load_balance_method = "round_robin"

GroupNext ==
    \/ \E name \in DefNames, labels \in DefGroups :
          next_call <= MaxGrouped /\ create_instance_in(name, labels)
    \/ \E c \in Inst : CreateDone(c)
    \/ \E index \in 0..(Len(instances) - 1) : remove_at(index)
    \/ \E label \in Labels, i \in Inst : add_instance_to_group(label, i)
    \/ \E label \in Labels, i \in Inst : remove_instance_from_group(label, i)

GroupSpec == GroupInit /\ [][GroupNext]_vars

\* Labels alone: instances created without a Name, with a Group array or without,
\* and labels added to them and removed from them
LabelNext ==
    \/ \E labels \in DefGroups :
          next_call <= MaxGrouped /\ create_instance_in(NoName, labels)
    \/ \E c \in Inst : CreateDone(c)
    \/ \E label \in Labels, i \in Inst : add_instance_to_group(label, i)
    \/ \E label \in Labels, i \in Inst : remove_instance_from_group(label, i)

LabelSpec == GroupInit /\ [][LabelNext]_vars

====
